---- MODULE Spec2Model ----
(***************************************************************************)
(* hyperdrive-vis-gen-diff: compares every hyperdrive_band??.bin file of   *)
(* the working directory against the file of the same name in a baseline   *)
(* directory and reports, by its exit code, whether the largest difference *)
(* between two floats is larger than a tolerance.                          *)
(*                                                                         *)
(* The model holds a file system (two directory listings and the contents  *)
(* of the files that have been read), and up to two invocations of main on *)
(* that same file system, the second one with the quiet flag flipped.      *)
(* A file's content is fixed the first time it is read: no step of the     *)
(* program writes a file.                                                  *)
(***************************************************************************)
EXTENDS Integers, Sequences, FiniteSets, TLC

(***************************************************************************)
(* Bounds of the model.                                                    *)
(***************************************************************************)
\* Trailing bytes a file may hold after its last whole 4-byte value.
MaxJunk == 1
\* Longest value sequence the fold is applied to under SpecFold.
MaxLen == 2
\* Finite values under SpecFold are the integers -MaxVal..MaxVal.
MaxVal == 1

(***************************************************************************)
(* f32.  A value is finite (an integer here: small integers are exact in   *)
(* f32, and so are their differences), an infinity, or NaN.                *)
(***************************************************************************)
Fin(n) == [k |-> "fin", v |-> n]
PInf == [k |-> "inf", v |-> 1]
NInf == [k |-> "inf", v |-> -1]
NaN == [k |-> "nan", v |-> 0]
\* Option<f32>::None
NoneF == [k |-> "none", v |-> 0]

\* p - d on f32
FSub(a, b) ==
    IF a.k = "nan" \/ b.k = "nan" THEN NaN
    ELSE IF a.k = "inf" /\ b.k = "inf" THEN (IF a.v = b.v THEN NaN ELSE a)
    ELSE IF a.k = "inf" THEN a
    ELSE IF b.k = "inf" THEN [k |-> "inf", v |-> 0 - b.v]
    ELSE Fin(a.v - b.v)

\* f32::abs
FAbs(a) ==
    IF a.k = "nan" THEN NaN
    ELSE IF a.k = "inf" THEN PInf
    ELSE Fin(IF a.v < 0 THEN 0 - a.v ELSE a.v)

\* a > b on f32: false as soon as one side is NaN
FGt(a, b) ==
    IF a.k = "nan" \/ b.k = "nan" THEN FALSE
    ELSE IF a.k = "inf" THEN a.v = 1 /\ b # PInf
    ELSE IF b.k = "inf" THEN b.v = -1
    ELSE a.v > b.v

\* a <= b on f32
FLe(a, b) ==
    IF a.k = "nan" \/ b.k = "nan" THEN FALSE ELSE ~FGt(a, b)

RECURSIVE Pow2(_)
Pow2(n) == IF n <= 0 THEN 1 ELSE 2 * Pow2(n - 1)

RECURSIVE Log2(_)
Log2(n) == IF n <= 1 THEN 0 ELSE 1 + Log2(n \div 2)

\* The four little-endian bytes of an f32 (IEEE-754 binary32): how the files
\* the program reads were written.
EncodeF32(f) ==
    IF f.k = "nan" THEN <<0, 0, 192, 127>>
    ELSE IF f.k = "inf" THEN <<0, 0, 128, IF f.v = 1 THEN 127 ELSE 255>>
    ELSE IF f.v = 0 THEN <<0, 0, 0, 0>>
    ELSE LET sign == IF f.v < 0 THEN 1 ELSE 0
             mag == IF f.v < 0 THEN 0 - f.v ELSE f.v
             e == Log2(mag)
             mant == (mag - Pow2(e)) * Pow2(23 - e)
             exp == 127 + e
         IN  << mant % 256,
                (mant \div 256) % 256,
                (exp % 2) * 128 + (mant \div 65536),
                sign * 128 + (exp \div 2) >>

\* LittleEndian::read_f32 of four bytes: sign, exponent and mantissa of the
\* 32-bit word b[1] + 2^8 b[2] + 2^16 b[3] + 2^24 b[4].
DecodeF32(b) ==
    LET sign == b[4] \div 128
        exp == (b[4] % 128) * 2 + (b[3] \div 128)
        mant == (b[3] % 128) * 65536 + b[2] * 256 + b[1]
    IN  IF exp = 255
        THEN (IF mant # 0 THEN NaN ELSE IF sign = 0 THEN PInf ELSE NInf)
        ELSE IF exp = 0 THEN Fin(0)
        ELSE LET sig == 8388608 + mant
                 sh == 150 - exp
                 mag == IF sh > 24 THEN 0
                        ELSE IF sh >= 0 THEN sig \div Pow2(sh)
                        ELSE sig * Pow2(0 - sh)
             IN  Fin(IF sign = 0 THEN mag ELSE 0 - mag)

\* LittleEndian::read_f32_into(&bytes, &mut data): data[i] is decoded from
\* bytes 4i-3 .. 4i.
ReadF32Into(bytes, n) ==
    [i \in 1..n |-> DecodeF32(SubSeq(bytes, 4 * i - 3, 4 * i))]

RECURSIVE EncodeAll(_)
EncodeAll(s) == IF s = <<>> THEN <<>> ELSE EncodeF32(Head(s)) \o EncodeAll(Tail(s))

(***************************************************************************)
(* Names, paths, files.                                                    *)
(***************************************************************************)
\* A file name: a stem, the characters where the pattern has its ?s, and an
\* extension.
Name(stem, wild, ext) == [stem |-> stem, wild |-> wild, ext |-> ext]
Band(wild) == Name("hyperdrive_band", wild, ".bin")
NoName == Name("", <<>>, "")

Band01 == Band(<<"0", "1">>)
Band02 == Band(<<"0", "2">>)
\* Entries a directory may hold that the pattern does not match.
OtherNames == {Band(<<"1">>), Name("hyperdrive_band", <<"0", "1">>, ".txt")}
BandNames == {Band01, Band02}

\* The default BASELINE_DIR
BaselineDir == "./baseline"
Path(dir, file) == [dir |-> dir, file |-> file]
\* A present file is named relative to the working directory.
PresentPath(p) == Path("", p)
\* b_file_path: baseline_str with p pushed
BaselinePath(p) == Path(BaselineDir, p)
BaselineDirPath == Path(BaselineDir, NoName)

\* What a path can hold: bytes, or something File::open or read_to_end fails on.
Unreadable == [ok |-> FALSE, bytes |-> <<>>]
Bytes(bs) == [ok |-> TRUE, bytes |-> bs]
Junk(j) == [i \in 1..j |-> 7]

F0 == Fin(0)
F1 == Fin(1)
F2 == Fin(2)
DataSeqs == {<<>>, <<F0>>, <<F1>>, <<NaN>>, <<PInf>>, <<F1, F0>>, <<F0, F2>>}
FileContents ==
    {Unreadable} \cup {Bytes(EncodeAll(s) \o Junk(j)) : s \in DataSeqs, j \in 0..MaxJunk}
Tolerances == {Fin(0), Fin(1), PInf, NaN}

VARIABLES
    baseline_is_dir,  \* whether options.baseline_dir is a directory
    pwd,              \* the names in the working directory
    baseline,         \* the names in the baseline directory
    fs,               \* the contents read so far: a set of [path, content]
    tolerance,        \* options.tolerance
    quiet,            \* options.quiet
    pc,               \* main's position
    present_files,    \* main's present_files
    idx,              \* the position of the for loop over present_files
    p_data,           \* main's p_data
    b_data,           \* main's b_data
    biggest_diff,     \* main's biggest_diff, of the last pair compared
    max_diff,         \* main's max_diff
    stdout,           \* the lines printed so far
    reads,            \* the paths read_f32s was called with, in order
    globs,            \* the directories glob_files has enumerated, in order
    diffs,            \* the biggest_diff of every pair compared, in order
    outcome,          \* how the run ended
    prev              \* the finished first run, once the second has started

inputs == <<baseline_is_dir, pwd, baseline, tolerance>>
locals == <<present_files, idx, p_data, b_data, biggest_diff, max_diff>>
vars == <<baseline_is_dir, pwd, baseline, fs, tolerance, quiet, pc, present_files,
          idx, p_data, b_data, biggest_diff, max_diff, stdout, reads, globs, diffs,
          outcome, prev>>

Running == [status |-> "running", kind |-> "", args |-> <<>>]
\* main returns Ok(())
Success == [status |-> "ok", kind |-> "", args |-> <<>>]
\* bail!(fmt, args...): main returns Err, the message is fmt with args
Bail(kind, args) == [status |-> "err", kind |-> kind, args |-> args]
\* std::process::exit(-1)
ExitMinusOne == [status |-> "exit", kind |-> "", args |-> <<>>]
\* .expect(msg) on None
Panic(msg) == [status |-> "panic", kind |-> msg, args |-> <<>>]

ExitCode(o) ==
    CASE o.status = "ok" -> 0
      [] o.status = "err" -> 1
      [] o.status = "exit" -> -1
      [] o.status = "panic" -> 101

Line(text, path, val) == [text |-> text, path |-> path, val |-> val]
NoPath == Path("", NoName)

\* println! whatever options.quiet is.
PrintLnAlways(out, q, line) == Append(out, line)

\* if !options.quiet { println!(...) }
PrintLn(out, q, line) == IF q THEN out ELSE Append(out, line)

\* Whether a name matches hyperdrive_band??.bin
Matches(n) == n.stem = "hyperdrive_band" /\ Len(n.wild) = 2 /\ n.ext = ".bin"

\* The orders in which a set of names can be enumerated.
Orders(S) ==
    {s \in [1..Cardinality(S) -> S] : \A i, j \in 1..Cardinality(S) : s[i] = s[j] => i = j}

\* glob_files: the file names of a directory that match, in the order glob yields
\* them.
glob_files(listing) == Orders({n \in listing : Matches(n)})

Range(s) == {s[i] : i \in 1..Len(s)}

\* read_f32s without the check of the byte count: the trailing bytes are dropped.
read_f32sUnchecked(path, c) ==
    IF ~c.ok THEN [ok |-> FALSE, data |-> <<>>, err |-> Bail("io", <<>>)]
    ELSE [ok |-> TRUE, data |-> ReadF32Into(c.bytes, Len(c.bytes) \div 4), err |-> Running]

\* read_f32s with a message that does not name the path.
read_f32sNoPath(path, c) ==
    IF ~c.ok THEN [ok |-> FALSE, data |-> <<>>, err |-> Bail("io", <<>>)]
    ELSE LET n == Len(c.bytes) \div 4
         IN  IF 4 * n # Len(c.bytes)
             THEN [ok |-> FALSE, data |-> <<>>, err |-> Bail("invalid bytes", <<>>)]
             ELSE [ok |-> TRUE, data |-> ReadF32Into(c.bytes, n), err |-> Running]

\* read_f32s on the content of a path: File::open and read_to_end fail with an
\* io::Error, whose message names no path; otherwise the bytes are decoded four
\* by four, unless their number is no multiple of 4.
read_f32s(path, c) ==
    IF ~c.ok THEN [ok |-> FALSE, data |-> <<>>, err |-> Bail("io", <<>>)]
    ELSE LET n == Len(c.bytes) \div 4
         IN  IF 4 * n # Len(c.bytes)
             THEN [ok |-> FALSE, data |-> <<>>, err |-> Bail("invalid bytes", <<path>>)]
             ELSE [ok |-> TRUE, data |-> ReadF32Into(c.bytes, n), err |-> Running]

\* The closure of the fold: the larger of acc and |p - d|
FoldFn(acc, p, d) ==
    LET diff == FAbs(FSub(p, d))
    IN  IF FGt(diff, acc) THEN diff ELSE acc

\* p_data.into_iter().zip(b_data.into_iter()).fold(acc, ...)
RECURSIVE Fold(_, _, _)
Fold(acc, ps, ds) ==
    IF ps = <<>> \/ ds = <<>> THEN acc
    ELSE Fold(FoldFn(acc, Head(ps), Head(ds)), Tail(ps), Tail(ds))

BiggestDiff(ps, ds) == Fold(Fin(0), ps, ds)

\* max_diff overwritten by every pair.
UpdateMaxLast(m, d) == d

\* max_diff.map_or(Some(biggest_diff), |m| ...)
UpdateMax(m, d) ==
    IF m = NoneF THEN d
    ELSE IF FGt(d, m) THEN d ELSE m

\* Whether the directory of a path lists its file.
Exists(path) ==
    path.file \in (IF path.dir = BaselineDir THEN baseline ELSE pwd)

\* The contents a path may turn out to hold: what it held when it was read before;
\* nothing that can be opened when no directory lists it.
ContentsOf(path) ==
    IF \E e \in fs : e.path = path
    THEN {e.content : e \in {x \in fs : x.path = path}}
    ELSE IF ~Exists(path) THEN {Unreadable}
    ELSE FileContents

\* The check of the baseline directory left out.
BaselineDirOkAlways == TRUE

\* PathBuf::from(&options.baseline_dir).is_dir()
BaselineDirOk == baseline_is_dir

\* The check of present_files left out.
IsEmptyNever(files) == FALSE

\* present_files.is_empty()
IsEmpty(files) == files = <<>>

\* max_diff >= options.tolerance
TooLargeOrEqual(m, tol) == FGt(m, tol) \/ m = tol

\* max_diff > options.tolerance
TooLarge(m, tol) == FGt(m, tol)

Fail(o) ==
    /\ outcome' = o
    /\ pc' = "done"

Init ==
    /\ baseline_is_dir \in BOOLEAN
    /\ pwd \in {S \cup OtherNames : S \in SUBSET BandNames}
    /\ baseline \in IF baseline_is_dir
                    THEN {S \cup OtherNames : S \in SUBSET BandNames}
                    ELSE {{}}
    /\ fs = {}
    /\ tolerance \in Tolerances
    /\ quiet \in BOOLEAN
    /\ pc = "start"
    /\ present_files = <<>>
    /\ idx = 1
    /\ p_data = <<>>
    /\ b_data = <<>>
    /\ biggest_diff = NoneF
    /\ max_diff = NoneF
    /\ stdout = <<>>
    /\ reads = <<>>
    /\ globs = <<>>
    /\ diffs = <<>>
    /\ outcome = Running
    /\ prev = {}

\* if !PathBuf::from(&options.baseline_dir).is_dir() { bail!(...) }
CheckBaselineDir ==
    /\ pc = "start"
    /\ IF ~BaselineDirOk
       THEN Fail(Bail("no baseline dir", <<BaselineDirPath>>))
       ELSE pc' = "glob_present" /\ outcome' = outcome
    /\ UNCHANGED <<inputs, fs, quiet, locals, stdout, reads, globs, diffs, prev>>

\* let present_files = glob_files("hyperdrive_band??.bin"); bail if empty
GlobPresent ==
    /\ pc = "glob_present"
    /\ \E order \in glob_files(pwd) :
        /\ present_files' = order
        /\ IF IsEmpty(order)
           THEN Fail(Bail("no present files", <<>>))
           ELSE pc' = "check_missing" /\ outcome' = outcome
    /\ globs' = Append(globs, "")
    /\ UNCHANGED <<inputs, fs, quiet, idx, p_data, b_data, biggest_diff, max_diff,
                   stdout, reads, diffs, prev>>

\* Only the first present file is looked up.
FirstMissingHeadOnly(ps, bs) == IF ps # <<>> /\ ps[1] \notin bs THEN 1 ELSE 0

\* The first present file, in order, that baseline_files does not contain.
FirstMissing(ps, bs) ==
    LET missing == {i \in 1..Len(ps) : ps[i] \notin bs}
    IN  IF missing = {} THEN 0 ELSE CHOOSE i \in missing : \A j \in missing : i <= j

\* Check that all present files are in baseline_files.
CheckBaselineFiles ==
    /\ pc = "check_missing"
    /\ \E baseline_files \in glob_files(baseline) :
        LET m == FirstMissing(present_files, Range(baseline_files))
        IN  IF m # 0
            THEN Fail(Bail("missing", <<PresentPath(present_files[m]), BaselineDirPath>>))
            ELSE pc' = "loop" /\ outcome' = outcome
    /\ globs' = Append(globs, BaselineDir)
    /\ UNCHANGED <<inputs, fs, quiet, locals, stdout, reads, diffs, prev>>

\* The loop's head to the check of p_data: print, read the present file, bail
\* when it holds no data.
ReadPresent ==
    /\ pc = "loop"
    /\ idx <= Len(present_files)
    /\ LET path == PresentPath(present_files[idx])
       IN  /\ stdout' = PrintLn(stdout, quiet, Line("Checking", path, NoneF))
           /\ reads' = Append(reads, path)
           /\ \E c \in ContentsOf(path) :
               LET r == read_f32s(path, c)
               IN  /\ fs' = fs \cup {[path |-> path, content |-> c]}
                   /\ IF ~r.ok THEN Fail(r.err) /\ p_data' = p_data
                      ELSE IF r.data = <<>>
                      THEN Fail(Bail("empty", <<path>>)) /\ p_data' = p_data
                      ELSE pc' = "read_baseline" /\ outcome' = outcome
                           /\ p_data' = r.data
    /\ UNCHANGED <<inputs, quiet, present_files, idx, b_data, biggest_diff, max_diff,
                   globs, diffs, prev>>

\* Read the baseline file of the same name, bail when it holds no data.
ReadBaseline ==
    /\ pc = "read_baseline"
    /\ LET path == BaselinePath(present_files[idx])
       IN  /\ reads' = Append(reads, path)
           /\ \E c \in ContentsOf(path) :
               LET r == read_f32s(path, c)
               IN  /\ fs' = fs \cup {[path |-> path, content |-> c]}
                   /\ IF ~r.ok THEN Fail(r.err) /\ b_data' = b_data
                      ELSE IF r.data = <<>>
                      THEN Fail(Bail("empty", <<path>>)) /\ b_data' = b_data
                      ELSE pc' = "compare" /\ outcome' = outcome
                           /\ b_data' = r.data
    /\ UNCHANGED <<inputs, quiet, present_files, idx, p_data, biggest_diff, max_diff,
                   stdout, globs, diffs, prev>>

\* Check that they have an equal amount of data, fold, print, update max_diff.
Compare ==
    /\ pc = "compare"
    /\ LET p == PresentPath(present_files[idx])
           d == BiggestDiff(p_data, b_data)
       IN  IF Len(p_data) # Len(b_data)
           THEN /\ Fail(Bail("different amounts",
                             <<p, BaselinePath(present_files[idx])>>))
                /\ UNCHANGED <<idx, biggest_diff, max_diff, stdout, diffs>>
           ELSE /\ biggest_diff' = d
                /\ stdout' = PrintLn(stdout, quiet, Line("Biggest difference", p, d))
                /\ max_diff' = UpdateMax(max_diff, d)
                /\ diffs' = Append(diffs, d)
                /\ idx' = idx + 1
                /\ pc' = "loop"
                /\ outcome' = outcome
    /\ UNCHANGED <<inputs, fs, quiet, present_files, p_data, b_data, reads, globs, prev>>

\* After the loop: expect max_diff, print it, compare it with the tolerance.
Finish ==
    /\ pc = "loop"
    /\ idx > Len(present_files)
    /\ pc' = "done"
    /\ IF max_diff = NoneF
       THEN outcome' = Panic("max_diff never got set!") /\ stdout' = stdout
       ELSE LET out1 == PrintLn(stdout, quiet, Line("Maximum difference", NoPath, max_diff))
            IN  IF TooLarge(max_diff, tolerance)
                THEN /\ stdout' = PrintLn(out1, quiet,
                                          Line("Difference is too large", NoPath, NoneF))
                     /\ outcome' = ExitMinusOne
                ELSE /\ stdout' = out1
                     /\ outcome' = Success
    /\ UNCHANGED <<inputs, fs, quiet, locals, reads, globs, diffs, prev>>

\* A second invocation on the same directories, files and tolerance, with the
\* quiet flag flipped; the first run's record is kept.
RunAgain ==
    /\ pc = "done"
    /\ prev = {}
    /\ prev' = {[quiet |-> quiet, present_files |-> present_files, reads |-> reads,
                 globs |-> globs, diffs |-> diffs, max_diff |-> max_diff,
                 stdout |-> stdout, outcome |-> outcome]}
    /\ quiet' = ~quiet
    /\ pc' = "start"
    /\ present_files' = <<>>
    /\ idx' = 1
    /\ p_data' = <<>>
    /\ b_data' = <<>>
    /\ biggest_diff' = NoneF
    /\ max_diff' = NoneF
    /\ stdout' = <<>>
    /\ reads' = <<>>
    /\ globs' = <<>>
    /\ diffs' = <<>>
    /\ outcome' = Running
    /\ UNCHANGED <<inputs, fs>>

Next ==
    \/ CheckBaselineDir
    \/ GlobPresent
    \/ CheckBaselineFiles
    \/ ReadPresent
    \/ ReadBaseline
    \/ Compare
    \/ Finish
    \/ RunAgain

Spec == Init /\ [][Next]_vars

(***************************************************************************)
(* The fold alone: main stands at the comparison of one pair whose         *)
(* sequences p_data and b_data are drawn from every non-empty sequence of  *)
(* at most MaxLen values.                                                  *)
(***************************************************************************)
FoldVals == {Fin(n) : n \in (0 - MaxVal)..MaxVal} \cup {PInf, NInf, NaN}
FoldSeqs == UNION {[1..n -> FoldVals] : n \in 1..MaxLen}

InitFold ==
    /\ baseline_is_dir = TRUE
    /\ pwd = {Band01}
    /\ baseline = {Band01}
    /\ fs = {}
    /\ tolerance \in Tolerances
    /\ quiet = FALSE
    /\ pc = "compare"
    /\ present_files = <<Band01>>
    /\ idx = 1
    /\ p_data \in FoldSeqs
    /\ b_data \in FoldSeqs
    /\ biggest_diff = NoneF
    /\ max_diff = NoneF
    /\ stdout = <<Line("Checking", PresentPath(Band01), NoneF)>>
    /\ reads = <<PresentPath(Band01), BaselinePath(Band01)>>
    /\ globs = <<"", BaselineDir>>
    /\ diffs = <<>>
    /\ outcome = Running
    /\ prev = {}

NextFold ==
    \/ Compare
    \/ Finish

SpecFold == InitFold /\ [][NextFold]_vars

(***************************************************************************)
(* What the claims speak of.                                               *)
(***************************************************************************)
Done == pc = "done"
\* The names of the working directory that the pattern matches.
PresentSet == {n \in pwd : Matches(n)}
BaselineSet == {n \in baseline : Matches(n)}
\* The content a path was read with.
Content(path) == (CHOOSE e \in fs : e.path = path).content
\* The values of a path that was read.
Decoded(path) == read_f32s(path, Content(path)).data
\* Every present file has been compared with its baseline file.
AllCompared == present_files # <<>> /\ Len(diffs) = Len(present_files)
\* m is the maximum of the set S of f32 values.
IsMax(m, S) == m \in S /\ \A d \in S : FLe(d, m)
\* The elementwise absolute differences of two sequences of the same length.
AbsDiffs(ps, ds) == {FAbs(FSub(ps[i], ds[i])) : i \in 1..Len(ps)}
StructuralKinds == {"invalid bytes", "empty", "different amounts"}

\* C1: when every present file has been compared, the run ends with exit code -1
\* if and only if max_diff is greater than the tolerance, and otherwise with exit
\* code 0; it ends with 0 when max_diff equals the tolerance.
C1_FailsIffGreater ==
    (Done /\ AllCompared) =>
        /\ outcome.status \in {"ok", "exit"}
        /\ (ExitCode(outcome) # 0) <=> FGt(max_diff, tolerance)
        /\ (max_diff = tolerance) => ExitCode(outcome) = 0

\* Two pairs compared, max_diff equal to the tolerance 1, exit code 0.
C1_Witness ==
    /\ Done /\ AllCompared
    /\ Len(present_files) = 2
    /\ max_diff = tolerance
    /\ max_diff = Fin(1)
    /\ outcome = Success

\* C2: when a present file has no file of its name in the baseline directory, no
\* file is ever read or compared and the run never ends with exit code 0: it ends
\* with an error.
C2_MissingFailsBeforeReading ==
    (PresentSet \ BaselineSet # {}) =>
        /\ reads = <<>>
        /\ diffs = <<>>
        /\ fs = {}
        /\ outcome.status \in {"running", "err"}
        /\ Done => /\ outcome.status = "err"
                   /\ ExitCode(outcome) # 0
                   /\ baseline_is_dir => outcome.kind = "missing"

\* The second of two present files is the one without a baseline file.
C2_Witness ==
    /\ Done
    /\ outcome.kind = "missing"
    /\ Len(present_files) = 2
    /\ present_files[1] \in BaselineSet
    /\ present_files[2] \notin BaselineSet
    /\ reads = <<>>

\* C3: for two sequences of the same length, the biggest difference the fold
\* computes is the maximum of |p_data[i] - b_data[i]|, and it is 0 when the two
\* sequences are equal.
C3_FoldIsMax ==
    (pc # "compare" /\ diffs # <<>> /\ Len(p_data) = Len(b_data)) =>
        /\ IsMax(biggest_diff, AbsDiffs(p_data, b_data))
        /\ (p_data = b_data) => biggest_diff = Fin(0)

\* The same, for sequences none of whose differences is NaN; and, in every case,
\* equal sequences have the biggest difference 0.
C3_FoldIsMaxWithoutNaN ==
    (pc # "compare" /\ diffs # <<>> /\ Len(p_data) = Len(b_data)) =>
        /\ (NaN \notin AbsDiffs(p_data, b_data))
               => IsMax(biggest_diff, AbsDiffs(p_data, b_data))
        /\ (p_data = b_data) => biggest_diff = Fin(0)

\* C4: when the baseline directory does not exist, no directory is enumerated, no
\* file is read, nothing is printed, and the run ends with the error that names
\* the directory.
C4_NoBaselineDirFailsFirst ==
    (~baseline_is_dir) =>
        /\ globs = <<>>
        /\ reads = <<>>
        /\ stdout = <<>>
        /\ outcome.status \in {"running", "err"}
        /\ Done => outcome = Bail("no baseline dir", <<BaselineDirPath>>)

\* No baseline directory, two present files.
C4_Witness ==
    /\ Done
    /\ ~baseline_is_dir
    /\ PresentSet = BandNames
    /\ outcome.kind = "no baseline dir"
    /\ ExitCode(outcome) = 1

\* Whether the i-th read found a structural anomaly: a number of bytes that is no
\* multiple of 4, no value at all, or, for a baseline file, another number of
\* values than its present file.
AnomalyAt(i) ==
    LET c == Content(reads[i])
    IN  /\ c.ok
        /\ \/ Len(c.bytes) % 4 # 0
           \/ Len(c.bytes) \div 4 = 0
           \/ /\ reads[i].dir = BaselineDir
              /\ i > 1
              /\ Content(reads[i - 1]).ok
              /\ Len(c.bytes) \div 4 # Len(Content(reads[i - 1]).bytes) \div 4

\* C5: a read that finds a structural anomaly is the last read of the run, and the
\* run ends there with an error: no difference is computed for the pair, the
\* tolerance is not compared, the exit code is not 0.  (A different number of
\* values is found by the step after the baseline file's read.)
C5_AnomalyFailsAtOnce ==
    \A i \in 1..Len(reads) :
        (AnomalyAt(i) /\ ~(pc = "compare" /\ i = Len(reads))) =>
            /\ i = Len(reads)
            /\ Done
            /\ outcome.status = "err"
            /\ outcome.kind \in StructuralKinds
            /\ ExitCode(outcome) # 0
            /\ Len(diffs) = (i - 1) \div 2
            /\ \A l \in Range(stdout) : l.text # "Maximum difference"

\* The baseline file of the second pair holds a number of bytes that is no
\* multiple of 4.
C5_Witness ==
    /\ Done
    /\ Len(reads) = 4
    /\ AnomalyAt(4)
    /\ Len(Content(reads[4]).bytes) % 4 # 0
    /\ outcome.kind = "invalid bytes"
    /\ Len(diffs) = 1

\* C6: when the working directory has no file that matches, the baseline
\* directory is not enumerated, no file is read, no maximum difference is set or
\* printed, and the run ends with an error.
C6_NoPresentFilesFails ==
    (PresentSet = {}) =>
        /\ BaselineDir \notin Range(globs)
        /\ reads = <<>>
        /\ max_diff = NoneF
        /\ \A l \in Range(stdout) : l.text # "Maximum difference"
        /\ outcome.status \in {"running", "err"}
        /\ Done => /\ ExitCode(outcome) # 0
                   /\ baseline_is_dir => outcome.kind = "no present files"

\* No present file, two baseline files: only the working directory was
\* enumerated.
C6_Witness ==
    /\ Done
    /\ PresentSet = {}
    /\ BaselineSet = BandNames
    /\ outcome.kind = "no present files"
    /\ globs = <<"">>

ListedKinds ==
    {"no baseline dir", "no present files", "missing", "invalid bytes", "empty",
     "different amounts"}

\* The paths a fatal error of a listed kind is caused by.
Offending(kind) ==
    CASE kind = "no baseline dir" -> <<BaselineDirPath>>
      [] kind = "no present files" -> <<Path("", NoName)>>
      [] kind = "missing" ->
            <<PresentPath(present_files[FirstMissing(present_files, BaselineSet)]),
              BaselineDirPath>>
      [] kind \in {"invalid bytes", "empty"} -> <<reads[Len(reads)]>>
      [] kind = "different amounts" -> <<reads[Len(reads) - 1], reads[Len(reads)]>>

\* C7, as claimed: every fatal error of a listed kind carries the path of the file
\* or directory that caused it.
C7_EveryErrorNamesItsPath ==
    (outcome.status = "err" /\ outcome.kind \in ListedKinds) =>
        outcome.args = Offending(outcome.kind)

\* C7, amended: every fatal error of a listed kind but "no present files" carries
\* the paths that caused it; the error "no present files" carries no path.
C7_ErrorsButNoPresentNameTheirPath ==
    (outcome.status = "err" /\ outcome.kind \in ListedKinds) =>
        IF outcome.kind = "no present files"
        THEN outcome.args = <<>>
        ELSE outcome.args = Offending(outcome.kind)

\* The error names the baseline file of the second pair.
C7_Witness ==
    /\ Done
    /\ outcome.kind = "invalid bytes"
    /\ Len(reads) = 4
    /\ outcome.args = <<BaselinePath(present_files[2])>>

\* C8: a quiet run prints nothing; and two runs on the same files, directory and
\* tolerance that enumerate the present files in the same order, one quiet and one
\* not, read the same paths in the same order and end the same way.
C8_QuietChangesOnlyStdout ==
    /\ quiet => stdout = <<>>
    /\ \A r \in prev :
        /\ r.quiet # quiet
        /\ r.quiet => r.stdout = <<>>
        /\ (Done /\ r.present_files = present_files) =>
            /\ r.reads = reads
            /\ r.globs = globs
            /\ r.outcome = outcome
            /\ ExitCode(r.outcome) = ExitCode(outcome)

\* A quiet run after a run that printed six lines, both with exit code -1.
C8_Witness ==
    /\ Done
    /\ quiet
    /\ \E r \in prev :
        /\ r.present_files = present_files
        /\ Len(r.stdout) = 6
        /\ Len(reads) = 4
        /\ r.outcome = ExitMinusOne

\* C9: max_diff is unset as long as no pair has been compared and is afterwards
\* the maximum of the biggest differences of the pairs compared so far; it never
\* decreases during a run; and two complete runs that enumerate the files in
\* different orders end with the same max_diff.
C9_RunningMax ==
    /\ [](/\ (diffs = <<>>) <=> (max_diff = NoneF)
          /\ (diffs # <<>>) => IsMax(max_diff, Range(diffs))
          /\ \A r \in prev :
                (Done /\ AllCompared /\ Len(r.diffs) = Len(r.present_files))
                    => r.max_diff = max_diff)
    /\ [][(max_diff # NoneF /\ max_diff' # NoneF) => ~FGt(max_diff, max_diff')]_vars

\* Two complete runs in opposite orders, with the biggest differences 1 and 2.
C9_Witness ==
    /\ Done /\ AllCompared
    /\ diffs = <<F2, F1>>
    /\ max_diff = F2
    /\ \E r \in prev : r.diffs = <<F1, F2>> /\ r.max_diff = F2

\* What a run that ends with exit code 0 has done, for C10.  d is at most tol
\* (d <= tol on f32); or, with orNaN, d is not greater than tol, which is also
\* true when d or tol is NaN.
AtMost(d, tol, orNaN) == IF orNaN THEN ~FGt(d, tol) ELSE FLe(d, tol)

PairOk(i, orNaN) ==
    LET p == present_files[i]
        ps == Decoded(PresentPath(p))
        bs == Decoded(BaselinePath(p))
    IN  /\ p \in BaselineSet
        /\ reads[2 * i - 1] = PresentPath(p)
        /\ reads[2 * i] = BaselinePath(p)
        /\ Len(ps) = Len(bs)
        /\ Len(ps) > 0
        /\ \A j \in 1..Len(ps) : AtMost(FAbs(FSub(ps[j], bs[j])), tolerance, orNaN)

SuccessOnlyIf(orNaN) ==
    /\ outcome.status # "panic"
    /\ (outcome = Success) =>
        /\ baseline_is_dir
        /\ present_files # <<>>
        /\ Range(present_files) = PresentSet
        /\ Len(reads) = 2 * Len(present_files)
        /\ AllCompared
        /\ \A i \in 1..Len(present_files) : PairOk(i, orNaN)

\* C10: the run ends with exit code 0 only if the baseline directory exists, the
\* present set is not empty, every present file was read and compared with the
\* baseline file of its name, of the same non-zero number of values, and every
\* elementwise absolute difference is at most the tolerance; and the expectation
\* "max_diff never got set!" never fails.
C10_SuccessOnlyWithinTolerance == SuccessOnlyIf(FALSE)

\* The same with "is not greater than the tolerance", which holds of a NaN
\* difference and of a NaN tolerance, in place of "is at most the tolerance".
C10_SuccessOnlyIfNoneGreater == SuccessOnlyIf(TRUE)

====
